---- MODULE Spec2Model ----
(***************************************************************************)
(* QOI decoder of rapid-qoi (src/src/decode.rs): Qoi::decoded_size,        *)
(* Qoi::decode_header, Qoi::decode, Qoi::decode_skip_header and the        *)
(* decode loop Qoi::decode_impl, as a state machine.                       *)
(*                                                                         *)
(* One behaviour is one call of one entry point on one input.  The bytes   *)
(* of the opcode stream are either unconstrained (Unk: the decoder reads   *)
(* the stream once, front to back, so each byte is fixed at the moment it  *)
(* is first matched), or the output of a conforming encoder on an image,   *)
(* or that output without its final byte or with other bytes after its     *)
(* last token.  SpecTokens runs decode_skip_header on streams given byte   *)
(* by byte, with every value of the leading byte and every delta token.    *)
(***************************************************************************)
EXTENDS Integers, Sequences, FiniteSets, TLC

(***************************************************************************)
(* Bounds of the model.                                                    *)
(***************************************************************************)
\* width and height range over 0..DimMax
DimMax == 3
\* the machine word (usize) in which decoded_size multiplies has WordBits
\* bits; scaled down from 32/64 together with DimMax so that the product of
\* two dimensions and a channel count can exceed the word, as
\* (2^32-1)*(2^32-1)*4 exceeds 2^64
WordBits == 4
\* output buffers have 0..MaxOut bytes
MaxOut == 9
\* the input has 0..MaxBody bytes after the header
MaxBody == 13

UsizeMod == 2 ^ WordBits

(***************************************************************************)
(* Constants of the crate (lib.rs).                                        *)
(***************************************************************************)
QOI_HEADER_SIZE == 14
QOI_PADDING == 8
\* u32::from_be_bytes(*b"qoif")
QOI_MAGIC == 1903126886

\* a byte of the opcode stream the decoder has not matched yet
Unk == -1

Byte == 0..255

Colors == {"Srgb", "SrgbLinA", "Rgb", "Rgba"}

\* Colors::has_alpha
has_alpha(colors) == colors \in {"SrgbLinA", "Rgba"}

\* the channel count HAS_ALPHA as usize + 3
Channels(colors) == IF has_alpha(colors) THEN 4 ELSE 3

(***************************************************************************)
(* u8 arithmetic.                                                          *)
(***************************************************************************)
wrapping_add(x, y) == (x + y) % 256

\* u8 subtraction that stops at 0
wrapping_sub_Clamped(x, y) == IF x < y THEN 0 ELSE x - y

wrapping_sub(x, y) == (x + 256 - y) % 256

\* (b >> s) & m for m = 2^k - 1
ShrAnd(b, s, m) == (b \div (2 ^ s)) % (m + 1)

(***************************************************************************)
(* Pixels and the color cache.                                             *)
(***************************************************************************)
Rgba(r, g, b, a) == [r |-> r, g |-> g, b |-> b, a |-> a]

\* Rgba::new_opaque
new_opaque == Rgba(0, 0, 0, 255)

\* Rgba::new
new == Rgba(0, 0, 0, 0)

qui_color_hash(c) == (c.r * 3 + c.g * 5 + c.b * 7 + c.a * 11) % 64

\* [Rgba::new(); 64], kept as the slots that hold another pixel than Rgba::new()
NewIndex == <<>>

\* IndexAt over a cache that starts filled with Rgba::new_opaque()
IndexAt_Opaque(idx, i) == IF i \in DOMAIN idx THEN idx[i] ELSE new_opaque

\* index[i]
IndexAt(idx, i) == IF i \in DOMAIN idx THEN idx[i] ELSE new

\* index[i] = p
IndexSet(idx, i, p) ==
    LET d == IF p = new THEN DOMAIN idx \ {i} ELSE DOMAIN idx \cup {i}
    IN [j \in d |-> IF j = i THEN p ELSE idx[j]]

(***************************************************************************)
(* Qoi::decoded_size.  The product is computed in usize: a release build   *)
(* wraps it, a build with overflow checks panics when it does not fit.     *)
(***************************************************************************)
Product(q) == q.width * q.height * Channels(q.colors)

Overflows(q) == Product(q) >= UsizeMod

decoded_size(q) == Product(q) % UsizeMod

(***************************************************************************)
(* Qoi::decode_header.                                                     *)
(***************************************************************************)
from_be_bytes(s) == s[1] * 16777216 + s[2] * 65536 + s[3] * 256 + s[4]

Err(e) == [ok |-> FALSE, err |-> e, qoi |-> [width |-> 0, height |-> 0, colors |-> "Srgb"]]

Ok(q) == [ok |-> TRUE, err |-> "Ok", qoi |-> q]

\* MatchColors with the channels field validated before the color space field
MatchColors_ChannelsFirst(channels, colors) ==
    CASE channels = 3 /\ colors = 0 -> "Srgb"
      [] channels = 4 /\ colors = 0 -> "SrgbLinA"
      [] channels = 3 /\ colors = 1 -> "Rgb"
      [] channels = 4 /\ colors = 1 -> "Rgba"
      [] OTHER -> IF channels \notin {3, 4} THEN "InvalidChannelsValue"
                  ELSE "InvalidColorSpaceValue"

MatchColors(channels, colors) ==
    CASE channels = 3 /\ colors = 0 -> "Srgb"
      [] channels = 4 /\ colors = 0 -> "SrgbLinA"
      [] channels = 3 /\ colors = 1 -> "Rgb"
      [] channels = 4 /\ colors = 1 -> "Rgba"
      [] OTHER -> IF colors \in {0, 1} THEN "InvalidChannelsValue"
                  ELSE "InvalidColorSpaceValue"

\* decode_header with the channels and color space fields validated before
\* the magic
decode_header_FieldsFirst(bs) ==
    IF Len(bs) < QOI_HEADER_SIZE THEN Err("DataIsTooSmall")
    ELSE LET w == from_be_bytes(SubSeq(bs, 5, 8))
             h == from_be_bytes(SubSeq(bs, 9, 12))
             m == MatchColors(bs[13], bs[14])
         IN IF m \notin Colors THEN Err(m)
            ELSE IF from_be_bytes(SubSeq(bs, 1, 4)) # QOI_MAGIC THEN Err("InvalidMagic")
            ELSE Ok([width |-> w, height |-> h, colors |-> m])

decode_header(bs) ==
    IF Len(bs) < QOI_HEADER_SIZE THEN Err("DataIsTooSmall")
    ELSE IF from_be_bytes(SubSeq(bs, 1, 4)) # QOI_MAGIC THEN Err("InvalidMagic")
    ELSE LET w == from_be_bytes(SubSeq(bs, 5, 8))
             h == from_be_bytes(SubSeq(bs, 9, 12))
             m == MatchColors(bs[13], bs[14])
         IN IF m \in Colors THEN Ok([width |-> w, height |-> h, colors |-> m])
            ELSE Err(m)

(***************************************************************************)
(* State.                                                                  *)
(***************************************************************************)
VARIABLES
    op,       \* the entry point called
    bytes,    \* bytes: &[u8]
    output,   \* output: &mut [u8]
    image,    \* the image bytes was encoded from, or NoImage
    alt,      \* the image bytes was encoded from and then altered, or NoAlt
    qoi,      \* self / the descriptor returned
    pc,       \* "call", "loop" (line 101), "run" (line 141), "done"
    result,   \* the value returned, or "Panic"
    px_len,
    px,
    index,
    px_pos,
    rest,
    run,
    wlog,     \* px_pos of every write into output, in order
    tok,      \* the last token matched at line 103
    calls,    \* calls of decode_header made
    prev,     \* what the previous call of decode_header returned
    ub        \* an unchecked write went outside output

vars == <<op, bytes, output, image, alt, qoi, pc, result, px_len, px, index, px_pos,
          rest, run, wlog, tok, calls, prev, ub>>

Ops == {"decode_header", "decode", "decode_skip_header"}

Errors == {"DataIsTooSmall", "InvalidMagic", "InvalidChannelsValue",
           "InvalidColorSpaceValue", "OutputIsTooSmall"}

Outcomes == {"Ok", "Panic"} \cup Errors

NoImage == [width |-> 0, height |-> 0, colors |-> "Srgb", pixels |-> <<-1>>]

\* kind "cut": the last byte of the encoding removed, last is the length of
\* its last token; kind "tail": the bytes after its last token replaced
NoAlt == [kind |-> "none", image |-> NoImage, last |-> 0]

NoQoi == [width |-> 0, height |-> 0, colors |-> "Srgb"]

\* lead: b1; before: rest.len() when it was matched; used: the bytes it bound;
\* at: the pixels written before it
NoTok == [lead |-> -1, before |-> 0, used |-> 0, arm |-> "none", at |-> 0]

\* the content of output before the call
Fill == 170

(***************************************************************************)
(* Inputs.                                                                 *)
(***************************************************************************)
to_be_bytes(n) == <<(n \div 16777216) % 256, (n \div 65536) % 256, (n \div 256) % 256, n % 256>>

Const(n, v) == [i \in 1..n |-> v]

\* b"qoif" and two other magic fields
QoifBytes == <<113, 111, 105, 102>>

FioqBytes == <<102, 105, 111, 113>>

Magics == {QoifBytes, FioqBytes, <<113, 111, 105, 103>>}

\* width and height fields given to decode_header alone
DimWords == {to_be_bytes(n) : n \in 0..DimMax}
            \cup {<<0, 0, 1, 0>>, <<1, 2, 3, 4>>, <<127, 255, 255, 255>>}

ChanBytes == {3, 4, 5, 0}

CsBytes == {0, 1, 2}

Header(magic, wb, hb, ch, cs) == magic \o wb \o hb \o <<ch, cs>>

\* inputs shorter than a header
ShortInputs == {<<>>, QoifBytes, Header(QoifBytes, <<0, 0, 0, 1>>, <<0, 0, 0>>, 4, 0),
                Header(<<0, 0, 0, 0>>, <<0, 0, 0, 1>>, <<0, 0, 0>>, 9, 9)}

HeaderInputs == {Header(m, wb, hb, ch, cs) :
                    m \in Magics, wb \in DimWords, hb \in DimWords, ch \in ChanBytes, cs \in CsBytes}

BodyLens == {0, QOI_PADDING, QOI_PADDING + 1, MaxBody - 2, MaxBody}

\* leading bytes of the tokens of an unconstrained stream
LeadBytes == {0, 53, 64, 106, 160, 192, 193, 253, 254, 255}

\* the bytes after the leading one of a token of n bytes of an unconstrained stream
ArgBytes(n) ==
    CASE n = 2 -> {<<0>>, <<255>>}
      [] n = 4 -> {<<0, 0, 0>>, <<255, 255, 255>>, <<1, 2, 3>>}
      [] n = 5 -> {<<0, 0, 0, 0>>, <<0, 0, 0, 255>>, <<1, 2, 3, 4>>}
      [] OTHER -> {<<>>}

Descriptors == [width : 0..DimMax, height : 0..DimMax, colors : Colors]

StartWith(o, bs, out, img, q, a) ==
    /\ op = o
    /\ bytes = bs
    /\ output = out
    /\ image = img
    /\ alt = a
    /\ qoi = q
    /\ pc = "call"
    /\ result = "None"
    /\ px_len = 0
    /\ px = new_opaque
    /\ index = NewIndex
    /\ px_pos = 0
    /\ rest = <<>>
    /\ run = 0
    /\ wlog = <<>>
    /\ tok = NoTok
    /\ calls = 0
    /\ prev = [result |-> "None", qoi |-> NoQoi]
    /\ ub = FALSE

Start(o, bs, out, img, q) == StartWith(o, bs, out, img, q, NoAlt)

InitHeader ==
    \E bs \in ShortInputs \cup HeaderInputs, n \in {0, 1} :
        Start("decode_header", bs \o Const(n, 0), <<>>, NoImage, NoQoi)

InitDecode ==
    \E m \in {QoifBytes, FioqBytes}, w \in 0..DimMax, h \in 0..DimMax,
       ch \in {3, 4, 5}, cs \in CsBytes,
       n \in BodyLens, k \in 0..MaxOut :
        Start("decode", Header(m, to_be_bytes(w), to_be_bytes(h), ch, cs) \o Const(n, Unk),
              Const(k, Fill), NoImage, NoQoi)

InitDecodeShort ==
    \E bs \in ShortInputs, k \in {0, MaxOut} :
        Start("decode", bs, Const(k, Fill), NoImage, NoQoi)

InitSkipHeader ==
    \E q \in Descriptors, n \in {0, QOI_HEADER_SIZE - 1} \cup {QOI_HEADER_SIZE + b : b \in BodyLens},
       k \in 0..MaxOut :
        Start("decode_skip_header", Const(n, Unk), Const(k, Fill), NoImage, q)

(***************************************************************************)
(* A conforming encoder (the QOI format: header, tokens chosen with the    *)
(* same hash and cache rule as the decoder, end padding), for the inputs   *)
(* that are encoded images.                                                *)
(***************************************************************************)
\* the difference of two channel values as a signed 8-bit number
SignedDiff(x, y) ==
    LET d == (x + 256 - y) % 256
    IN IF d >= 128 THEN d - 256 ELSE d

\* the token for pixel p after pixel q, p not in the cache and p # q
EncodeToken(p, q) ==
    LET vr == SignedDiff(p.r, q.r)
        vg == SignedDiff(p.g, q.g)
        vb == SignedDiff(p.b, q.b)
    IN IF p.a # q.a THEN <<255, p.r, p.g, p.b, p.a>>
       ELSE IF vr \in -2..1 /\ vg \in -2..1 /\ vb \in -2..1
       THEN <<64 + (vr + 2) * 16 + (vg + 2) * 4 + (vb + 2)>>
       ELSE IF vg \in -32..31 /\ (vr - vg) \in -8..7 /\ (vb - vg) \in -8..7
       THEN <<128 + (vg + 32), (vr - vg + 8) * 16 + (vb - vg + 8)>>
       ELSE <<254, p.r, p.g, p.b>>

\* the run token for n repetitions, nothing for n = 0
EncodeRun(n) == IF n > 0 THEN <<192 + (n - 1)>> ELSE <<>>

RECURSIVE EncodePixels(_, _, _, _, _)
EncodePixels(pxs, i, q, idx, n) ==
    IF i > Len(pxs) THEN EncodeRun(n)
    ELSE LET p == pxs[i]
             h == qui_color_hash(p)
         IN IF p = q
            THEN IF n + 1 = 62
                 THEN EncodeRun(62) \o EncodePixels(pxs, i + 1, p, idx, 0)
                 ELSE EncodePixels(pxs, i + 1, p, idx, n + 1)
            ELSE IF IndexAt(idx, h) = p
            THEN EncodeRun(n) \o <<h>> \o EncodePixels(pxs, i + 1, p, idx, 0)
            ELSE EncodeRun(n) \o EncodeToken(p, q)
                     \o EncodePixels(pxs, i + 1, p, IndexSet(idx, h, p), 0)

\* the channels and color space bytes of a color mode
ColorsBytes(c) ==
    CASE c = "Srgb" -> <<3, 0>>
      [] c = "SrgbLinA" -> <<4, 0>>
      [] c = "Rgb" -> <<3, 1>>
      [] c = "Rgba" -> <<4, 1>>

EndPadding == <<0, 0, 0, 0, 0, 0, 0, 1>>

\* the pixel buffer of pixels pxs in a color mode
PixelBytes(pxs, c) ==
    LET ch == Channels(c)
    IN [k \in 1..(Len(pxs) * ch) |->
            LET p == pxs[((k - 1) \div ch) + 1]
                j == (k - 1) % ch
            IN IF j = 0 THEN p.r ELSE IF j = 1 THEN p.g ELSE IF j = 2 THEN p.b ELSE p.a]

Encode(w, h, c, pxs) ==
    QoifBytes \o to_be_bytes(w) \o to_be_bytes(h) \o ColorsBytes(c)
        \o EncodePixels(pxs, 1, new_opaque, NewIndex, 0) \o EndPadding

\* the length of the token that starts with byte b, as the format defines it
TokenLen(b) ==
    IF b = 254 THEN 4
    ELSE IF b = 255 THEN 5
    ELSE IF b \in 128..191 THEN 2
    ELSE 1

\* the length of the last token of a token stream that starts at toks[i]
RECURSIVE LastTokenLen(_, _)
LastTokenLen(toks, i) ==
    IF i > Len(toks) THEN 0
    ELSE LET n == TokenLen(toks[i])
         IN IF i + n > Len(toks) THEN n ELSE LastTokenLen(toks, i + n)

\* pixel values of the images encoded
Palette == {Rgba(0, 0, 0, 255), Rgba(255, 255, 255, 255), Rgba(1, 0, 254, 255),
            Rgba(250, 10, 3, 255), Rgba(10, 20, 30, 255), Rgba(200, 100, 50, 255),
            Rgba(0, 0, 0, 0), Rgba(10, 20, 30, 40), Rgba(128, 0, 128, 1)}

\* images whose pixel buffer exists (its size fits the word) and fits MaxOut
Images ==
    {[width |-> w, height |-> h, colors |-> c, pixels |-> PixelBytes(pxs, c), px |-> pxs] :
        <<w, h, c, pxs>> \in
            UNION {UNION {{<<w, h, c, pxs>> :
                             pxs \in [1..(w * h) ->
                                        IF has_alpha(c) THEN Palette
                                        ELSE {p \in Palette : p.a = 255}]} :
                          c \in {cc \in Colors : w * h * Channels(cc) <= MaxOut
                                                  /\ w * h * Channels(cc) < UsizeMod}} :
                   <<w, h>> \in (0..DimMax) \X (0..DimMax)}}

InitEncoded ==
    \E img \in Images :
        Start("decode", Encode(img.width, img.height, img.colors, img.px),
              Const(Len(img.pixels), Fill),
              [width |-> img.width, height |-> img.height, colors |-> img.colors,
               pixels |-> img.pixels],
              NoQoi)

\* decode of the encoding of an image without its final byte
InitCut ==
    \E img \in Images :
        LET toks == EncodePixels(img.px, 1, new_opaque, NewIndex, 0)
            enc == Encode(img.width, img.height, img.colors, img.px)
        IN StartWith("decode", SubSeq(enc, 1, Len(enc) - 1),
                     Const(Len(img.pixels), Fill), NoImage, NoQoi,
                     [kind |-> "cut",
                      image |-> [width |-> img.width, height |-> img.height,
                                 colors |-> img.colors, pixels |-> img.pixels],
                      last |-> LastTokenLen(toks, 1)])

\* bytes put in the place of the end padding
OtherTails == {Const(QOI_PADDING, 255), <<254, 1, 2, 3, 192, 0, 64, 128>>}

\* decode of the encoding of an image with other bytes after its last token
InitTail ==
    \E img \in Images, t \in OtherTails :
        LET enc == Encode(img.width, img.height, img.colors, img.px)
        IN StartWith("decode", SubSeq(enc, 1, Len(enc) - QOI_PADDING) \o t,
                     Const(Len(img.pixels), Fill), NoImage, NoQoi,
                     [kind |-> "tail",
                      image |-> [width |-> img.width, height |-> img.height,
                                 colors |-> img.colors, pixels |-> img.pixels],
                      last |-> 0])

Init ==
    \/ InitHeader
    \/ InitDecode
    \/ InitDecodeShort
    \/ InitSkipHeader
    \/ InitEncoded
    \/ InitCut
    \/ InitTail

(***************************************************************************)
(* Returning.                                                              *)
(***************************************************************************)
Return(r) ==
    /\ pc' = "done"
    /\ result' = r

(***************************************************************************)
(* decode_header called by itself (twice, to compare the results).         *)
(***************************************************************************)
DecodeHeaderCall ==
    /\ op = "decode_header"
    /\ calls < 2
    /\ LET h == decode_header(bytes)
       IN /\ Return(h.err)
          /\ qoi' = h.qoi
    /\ calls' = calls + 1
    /\ prev' = [result |-> result, qoi |-> qoi]
    /\ UNCHANGED <<op, bytes, output, image, alt, px_len, px, index, px_pos, rest, run, wlog, tok, ub>>

(***************************************************************************)
(* decode_impl up to the loop, lines 80..99.                               *)
(***************************************************************************)
\* ZeroSized with `&&` for `||`
ZeroSized_Both(q) == q.width = 0 /\ q.height = 0

\* line 82
ZeroSized(q) == q.width = 0 \/ q.height = 0

decode_impl_enter(q) ==
    \E checked \in BOOLEAN :
        IF checked /\ Overflows(q)
        THEN Return("Panic") /\ UNCHANGED <<px_len, rest>>
        ELSE /\ px_len' = decoded_size(q)
             /\ IF ZeroSized(q)
                THEN Return("Ok") /\ UNCHANGED rest
                ELSE IF px_len' > Len(output)
                THEN Return("OutputIsTooSmall") /\ UNCHANGED rest
                ELSE IF checked /\ px_len' % Channels(q.colors) # 0
                THEN Return("Panic") /\ UNCHANGED rest
                ELSE IF Len(bytes) < QOI_HEADER_SIZE
                THEN Return("Panic") /\ UNCHANGED rest
                ELSE /\ rest' = SubSeq(bytes, QOI_HEADER_SIZE + 1, Len(bytes))
                     /\ pc' = "loop"
                     /\ UNCHANGED result

DecodeSkipHeaderCall ==
    /\ op = "decode_skip_header"
    /\ pc = "call"
    /\ decode_impl_enter(qoi)
    /\ UNCHANGED <<op, bytes, output, image, alt, qoi, px, index, px_pos, run, wlog, tok, calls, prev, ub>>

DecodeCall ==
    /\ op = "decode"
    /\ pc = "call"
    /\ LET h == decode_header(bytes)
       IN IF h.ok
          THEN /\ qoi' = h.qoi
               /\ decode_impl_enter(h.qoi)
          ELSE /\ Return(h.err)
               /\ UNCHANGED <<qoi, px_len, rest>>
    /\ UNCHANGED <<op, bytes, output, image, alt, px, index, px_pos, run, wlog, tok, calls, prev, ub>>

(***************************************************************************)
(* The decode loop, lines 101..173.                                        *)
(***************************************************************************)
\* the values a byte of the stream can have when it is matched
Lead(bs) ==
    IF bs = <<>> THEN {}
    ELSE IF bs[1] = Unk THEN LeadBytes
    ELSE {bs[1]}

\* the bytes b2.. bound by an arm of n bytes
Args(bs, n) == IF bs[2] = Unk THEN ArgBytes(n) ELSE {SubSeq(bs, 2, n)}

\* Arm with the run pattern tried before the two literal patterns
Arm_RunFirst(b1, n) ==
    IF b1 \in 192..255 /\ n >= 1 THEN "run"
    ELSE IF b1 = 254 /\ n >= 4 THEN "rgb"
    ELSE IF b1 = 255 /\ n >= 5 THEN "rgba"
    ELSE IF b1 \in 0..63 /\ n >= 1 THEN "index"
    ELSE IF b1 \in 64..127 /\ n >= 1 THEN "diff"
    ELSE IF b1 \in 128..191 /\ n >= 2 THEN "luma"
    ELSE "unreachable"

\* the arm of `match rest` (line 103) taken by a slice of n bytes that starts
\* with b1: the first pattern, in source order, that the slice matches
Arm(b1, n) ==
    IF b1 = 254 /\ n >= 4 THEN "rgb"
    ELSE IF b1 = 255 /\ n >= 5 THEN "rgba"
    ELSE IF b1 \in 0..63 /\ n >= 1 THEN "index"
    ELSE IF b1 \in 64..127 /\ n >= 1 THEN "diff"
    ELSE IF b1 \in 128..191 /\ n >= 2 THEN "luma"
    ELSE IF b1 \in 192..255 /\ n >= 1 THEN "run"
    ELSE "unreachable"

\* the bytes an arm binds before `tail`
ArmLen(arm) ==
    CASE arm = "rgb" -> 4
      [] arm = "rgba" -> 5
      [] arm = "luma" -> 2
      [] OTHER -> 1

\* HasToken asking only for a non-empty rest
HasToken_NonEmpty == Len(rest) > 0

\* HasToken satisfied by QOI_PADDING bytes
HasToken_AtLeast == Len(rest) >= QOI_PADDING

\* line 102
HasToken == Len(rest) > QOI_PADDING

\* the guard of an arm: the loop runs, a token is read, b1 selects the arm
Dispatch(b1, arm) ==
    /\ pc = "loop"
    /\ px_pos < px_len
    /\ HasToken
    /\ Arm(b1, Len(rest)) = arm

\* rest = tail
Consume(b1, arm) ==
    /\ rest' = SubSeq(rest, ArmLen(arm) + 1, Len(rest))
    /\ tok' = [lead |-> b1, before |-> Len(rest), used |-> ArmLen(arm), arm |-> arm,
               at |-> Len(wlog)]

\* Rgba::write_rgba / Rgba::write_rgb into output[px_pos .. px_pos + channels]
write_px(out, pos, p, ch) ==
    [i \in 1..Len(out) |->
        IF i = pos + 1 THEN p.r
        ELSE IF i = pos + 2 THEN p.g
        ELSE IF i = pos + 3 THEN p.b
        ELSE IF i = pos + 4 /\ ch = 4 THEN p.a
        ELSE out[i]]

\* output.get_unchecked_mut(px_pos..px_pos + channels) is inside output
InBounds(pos, ch) == pos + ch <= Len(output)

\* Write with write_rgba in both color modes
Write_Rgba(p) ==
    LET ch == Channels(qoi.colors)
    IN /\ wlog' = Append(wlog, px_pos)
       /\ IF InBounds(px_pos, ch)
          THEN /\ output' = write_px(output, px_pos, p, 4)
               /\ px_pos' = px_pos + ch
               /\ UNCHANGED <<ub, result>>
          ELSE /\ ub' = TRUE
               /\ result' \in Outcomes
               /\ UNCHANGED <<output, px_pos>>

\* lines 146..154 and 166..170: the unchecked write of px and px_pos += channels.
\* A write outside output is undefined behaviour: any outcome.
Write(p) ==
    LET ch == Channels(qoi.colors)
    IN /\ wlog' = Append(wlog, px_pos)
       /\ IF InBounds(px_pos, ch)
          THEN /\ output' = write_px(output, px_pos, p, ch)
               /\ px_pos' = px_pos + ch
               /\ UNCHANGED <<ub, result>>
          ELSE /\ ub' = TRUE
               /\ result' \in Outcomes
               /\ UNCHANGED <<output, px_pos>>

\* Store into the slot of the hash of r, g, b with an opaque alpha
Store_HashRgb(p) ==
    /\ px' = p
    /\ index' = IndexSet(index, qui_color_hash([p EXCEPT !.a = 255]), p)
    /\ Write(p)
    /\ pc' = IF InBounds(px_pos, Channels(qoi.colors)) THEN "loop" ELSE "done"
    /\ UNCHANGED <<op, bytes, image, alt, qoi, px_len, run, calls, prev>>

\* lines 164..170 after a token that is not a run
Store(p) ==
    /\ px' = p
    /\ index' = IndexSet(index, qui_color_hash(p), p)
    /\ Write(p)
    /\ pc' = IF InBounds(px_pos, Channels(qoi.colors)) THEN "loop" ELSE "done"
    /\ UNCHANGED <<op, bytes, image, alt, qoi, px_len, run, calls, prev>>

\* u8::saturating_add
saturating_add(x, y) == IF x + y > 255 THEN 255 ELSE x + y

\* diff_px with saturating_add for wrapping_add
diff_px_Saturating(p, b1) ==
    [p EXCEPT !.r = saturating_add(p.r, wrapping_sub(ShrAnd(b1, 4, 3), 2)),
              !.g = saturating_add(p.g, wrapping_sub(ShrAnd(b1, 2, 3), 2)),
              !.b = saturating_add(p.b, wrapping_sub(ShrAnd(b1, 0, 3), 2))]

\* line 123..125
diff_px(p, b1) ==
    [p EXCEPT !.r = wrapping_add(p.r, wrapping_sub(ShrAnd(b1, 4, 3), 2)),
              !.g = wrapping_add(p.g, wrapping_sub(ShrAnd(b1, 2, 3), 2)),
              !.b = wrapping_add(p.b, wrapping_sub(ShrAnd(b1, 0, 3), 2))]

\* line 129..135
luma_px(p, b1, b2) ==
    LET vg == wrapping_sub(ShrAnd(b1, 0, 63), 32)
        vr == wrapping_add(wrapping_sub(ShrAnd(b2, 4, 15), 8), vg)
        vb == wrapping_add(wrapping_sub(ShrAnd(b2, 0, 15), 8), vg)
    IN [p EXCEPT !.r = wrapping_add(p.r, vr),
                 !.g = wrapping_add(p.g, vg),
                 !.b = wrapping_add(p.b, vb)]

OpRgb ==
    \E b1 \in Lead(rest) :
        /\ Dispatch(b1, "rgb")
        /\ \E a \in Args(rest, 4) :
               Store([px EXCEPT !.r = a[1], !.g = a[2], !.b = a[3]])
        /\ Consume(b1, "rgb")

OpRgba ==
    \E b1 \in Lead(rest) :
        /\ Dispatch(b1, "rgba")
        /\ \E a \in Args(rest, 5) :
               Store([px EXCEPT !.r = a[1], !.g = a[2], !.b = a[3], !.a = a[4]])
        /\ Consume(b1, "rgba")

OpIndex ==
    \E b1 \in Lead(rest) :
        /\ Dispatch(b1, "index")
        /\ Store(IndexAt(index, b1))
        /\ Consume(b1, "index")

OpDiff ==
    \E b1 \in Lead(rest) :
        /\ Dispatch(b1, "diff")
        /\ Store(diff_px(px, b1))
        /\ Consume(b1, "diff")

OpLuma ==
    \E b1 \in Lead(rest) :
        /\ Dispatch(b1, "luma")
        /\ \E a \in Args(rest, 2) : Store(luma_px(px, b1, a[1]))
        /\ Consume(b1, "luma")

\* lines 137..139
OpRun ==
    \E b1 \in Lead(rest) :
        /\ Dispatch(b1, "run")
        /\ run' = ShrAnd(b1, 0, 63) + 1
        /\ pc' = "run"
        /\ Consume(b1, "run")
        /\ UNCHANGED <<op, bytes, output, image, alt, qoi, result, px_len, px, index, px_pos,
                       wlog, calls, prev, ub>>

\* RunStep that stores the running pixel in the cache with every copy
RunStep_Caches ==
    /\ pc = "run"
    /\ run > 0
    /\ run' = run - 1
    /\ index' = IndexSet(index, qui_color_hash(px), px)
    /\ IF px_pos >= px_len
       THEN /\ Return("OutputIsTooSmall")
            /\ UNCHANGED <<output, px_pos, wlog, ub>>
       ELSE /\ Write(px)
            /\ pc' = IF InBounds(px_pos, Channels(qoi.colors)) THEN "run" ELSE "done"
    /\ UNCHANGED <<op, bytes, image, alt, qoi, px_len, px, rest, tok, calls, prev>>

\* lines 141..155, one iteration
RunStep ==
    /\ pc = "run"
    /\ run > 0
    /\ run' = run - 1
    /\ IF px_pos >= px_len
       THEN /\ Return("OutputIsTooSmall")
            /\ UNCHANGED <<output, px_pos, wlog, ub>>
       ELSE /\ Write(px)
            /\ pc' = IF InBounds(px_pos, Channels(qoi.colors)) THEN "run" ELSE "done"
    /\ UNCHANGED <<op, bytes, image, alt, qoi, px_len, px, index, rest, tok, calls, prev>>

\* line 156
RunEnd ==
    /\ pc = "run"
    /\ run = 0
    /\ pc' = "loop"
    /\ UNCHANGED <<op, bytes, output, image, alt, qoi, result, px_len, px, index, px_pos,
                   rest, run, wlog, tok, calls, prev, ub>>

\* line 161
DataTooSmall ==
    /\ pc = "loop"
    /\ px_pos < px_len
    /\ ~HasToken
    /\ Return("DataIsTooSmall")
    /\ UNCHANGED <<op, bytes, output, image, alt, qoi, px_len, px, index, px_pos,
                   rest, run, wlog, tok, calls, prev, ub>>

\* LoopExit that returns Ok only in front of the end padding
LoopExit_ChecksPadding ==
    /\ pc = "loop"
    /\ ~(px_pos < px_len)
    /\ Return(IF rest = EndPadding THEN "Ok" ELSE "DataIsTooSmall")
    /\ UNCHANGED <<op, bytes, output, image, alt, qoi, px_len, px, index, px_pos,
                   rest, run, wlog, tok, calls, prev, ub>>

\* lines 101 and 173
LoopExit ==
    /\ pc = "loop"
    /\ ~(px_pos < px_len)
    /\ Return("Ok")
    /\ UNCHANGED <<op, bytes, output, image, alt, qoi, px_len, px, index, px_pos,
                   rest, run, wlog, tok, calls, prev, ub>>

Next ==
    \/ DecodeHeaderCall
    \/ DecodeCall
    \/ DecodeSkipHeaderCall
    \/ OpRgb
    \/ OpRgba
    \/ OpIndex
    \/ OpDiff
    \/ OpLuma
    \/ OpRun
    \/ RunStep
    \/ RunEnd
    \/ DataTooSmall
    \/ LoopExit

Spec == Init /\ [][Next]_vars

(***************************************************************************)
(* decode_skip_header on streams given byte by byte: every value of the    *)
(* leading byte as the first token, and every small-delta and luma-delta   *)
(* token after a literal pixel.                                            *)
(***************************************************************************)
\* a descriptor of two pixels
TwoPixels(c) == [width |-> 2, height |-> 1, colors |-> c]

\* the bytes after a first token
Tails == {Const(QOI_PADDING - 1, 0), Const(QOI_PADDING, 0), Const(QOI_PADDING + 4, 1)}

\* running pixels the delta tokens are applied to
DeltaPixels == {Rgba(0, 255, 128, 255), Rgba(255, 128, 0, 0), Rgba(127, 1, 254, 7)}

\* all small-delta and luma-delta tokens
DeltaTokens == {<<b1>> : b1 \in 64..127} \cup {<<b1, b2>> : b1 \in 128..191, b2 \in Byte}

InitFirstToken ==
    \E b1 \in Byte, t \in Tails, c \in {"Rgb", "Rgba"} :
        Start("decode_skip_header", Const(QOI_HEADER_SIZE, 0) \o <<b1>> \o t,
              Const(2 * Channels(c), Fill), NoImage, TwoPixels(c))

InitDeltaToken ==
    \E p \in DeltaPixels, d \in DeltaTokens :
        Start("decode_skip_header",
              Const(QOI_HEADER_SIZE, 0) \o <<255, p.r, p.g, p.b, p.a>> \o d \o Const(QOI_PADDING, 0),
              Const(8, Fill), NoImage, TwoPixels("Rgba"))

InitTokens == InitFirstToken \/ InitDeltaToken

NextTokens ==
    \/ DecodeSkipHeaderCall
    \/ OpRgb
    \/ OpRgba
    \/ OpIndex
    \/ OpDiff
    \/ OpLuma
    \/ OpRun
    \/ RunStep
    \/ RunEnd
    \/ DataTooSmall
    \/ LoopExit

SpecTokens == InitTokens /\ [][NextTokens]_vars

(***************************************************************************)
(* Properties.                                                             *)
(***************************************************************************)
\* the call is one that runs decode_impl on the descriptor qoi
Entered ==
    /\ pc # "call"
    /\ \/ op = "decode_skip_header"
       \/ op = "decode" /\ Len(bytes) >= QOI_HEADER_SIZE /\ result \notin
              {"InvalidMagic", "InvalidChannelsValue", "InvalidColorSpaceValue"}

\* C1: with width > 0 and height > 0, decode and decode_skip_header return Ok
\* only when exactly width*height pixels were written and the pixel cursor is
\* width*height*channels.
C1_OkOnlyWhenComplete ==
    (Entered /\ pc = "done" /\ result = "Ok" /\ qoi.width > 0 /\ qoi.height > 0)
        => /\ px_pos = qoi.width * qoi.height * Channels(qoi.colors)
           /\ Len(wlog) = qoi.width * qoi.height

\* C2: decoding the bytes a conforming encoder produces for an image returns
\* Ok with the image's descriptor and leaves the image's pixel buffer, byte for
\* byte, in output.
C2_RoundTrip ==
    (image # NoImage /\ pc = "done")
        => /\ result = "Ok"
           /\ qoi = [width |-> image.width, height |-> image.height, colors |-> image.colors]
           /\ output = image.pixels

\* C2 witness: a three-pixel image A, B, A was decoded, its last pixel from
\* the color cache.
C2_Witness ==
    /\ image # NoImage
    /\ pc = "done"
    /\ result = "Ok"
    /\ Len(wlog) = 3
    /\ tok.arm = "index"
    /\ SubSeq(output, 1, 3) = SubSeq(output, 7, 9)
    /\ SubSeq(output, 1, 3) # SubSeq(output, 4, 6)

\* C3: a token is matched only when more than QOI_PADDING bytes remain, it has
\* the length its leading byte calls for, all of it lies inside the remaining
\* input, and with QOI_PADDING bytes or fewer left while pixels are missing
\* the decode fails with DataIsTooSmall.
C3_NoReadPastInput ==
    [][/\ (pc = "loop" /\ rest' # rest)
            => /\ Len(rest) > QOI_PADDING
               /\ tok'.lead \in Byte
               /\ rest[1] \in {Unk, tok'.lead}
               /\ tok'.used = TokenLen(tok'.lead)
               /\ tok'.used <= Len(rest)
               /\ Len(rest') = Len(rest) - tok'.used
               /\ QOI_HEADER_SIZE + (Len(bytes) - QOI_HEADER_SIZE - Len(rest')) <= Len(bytes)
       /\ (pc = "loop" /\ px_pos < px_len /\ Len(rest) <= QOI_PADDING)
            => (pc' = "done" /\ result' = "DataIsTooSmall" /\ rest' = rest)]_vars

\* C3 witness: a five-byte token was matched with QOI_PADDING + 1 bytes left,
\* and the decode then failed for lack of input.
C3_Witness ==
    /\ tok.arm = "rgba"
    /\ tok.before = QOI_PADDING + 1
    /\ Len(rest) = QOI_PADDING - 4
    /\ result = "DataIsTooSmall"

\* C4: every write goes to output[px_pos .. px_pos+channels) with px_pos the
\* next multiple of channels and px_pos+channels <= decoded_size <=
\* output.len(); output at and after decoded_size keeps its content.
C4_WritesInBounds ==
    Entered =>
        /\ ~ub
        /\ \A i \in 1..Len(wlog) :
               /\ wlog[i] = (i - 1) * Channels(qoi.colors)
               /\ wlog[i] + Channels(qoi.colors) <= px_len
               /\ px_len <= Len(output)
        /\ \A i \in 1..Len(output) : i > px_len => output[i] = Fill

\* C5: every call ends by returning Ok or a DecodeError, never by a panic.
C5_ErrorsAreReturned ==
    pc = "done" => result \in {"Ok"} \cup Errors

\* C6: the value decode_impl takes from decoded_size() is the product
\* width * height * channels, for every descriptor.
C6_DecodedSizeIsProduct ==
    Entered => px_len = qoi.width * qoi.height * Channels(qoi.colors)

\* the big-endian value of bytes bs[i+1 .. i+4]
BigEndianAt(bs, i) == ((bs[i + 1] * 256 + bs[i + 2]) * 256 + bs[i + 3]) * 256 + bs[i + 4]

\* C7: on an input of header size with the magic b"qoif", decode_header maps
\* (channels, color space) = (3,0), (4,0), (3,1), (4,1) to Srgb, SrgbLinA, Rgb,
\* Rgba with the big-endian width and height of offsets 4 and 8; any other
\* channels value with color space 0 or 1 gives InvalidChannelsValue, any other
\* color space gives InvalidColorSpaceValue.
C7_HeaderMapping ==
    (op = "decode_header" /\ calls > 0 /\ Len(bytes) >= 14 /\ SubSeq(bytes, 1, 4) = QoifBytes)
        => LET ch == bytes[13]
               cs == bytes[14]
               okAs(c) == /\ result = "Ok"
                          /\ qoi = [width |-> BigEndianAt(bytes, 4),
                                    height |-> BigEndianAt(bytes, 8), colors |-> c]
           IN /\ (ch = 3 /\ cs = 0) => okAs("Srgb")
              /\ (ch = 4 /\ cs = 0) => okAs("SrgbLinA")
              /\ (ch = 3 /\ cs = 1) => okAs("Rgb")
              /\ (ch = 4 /\ cs = 1) => okAs("Rgba")
              /\ (ch \notin {3, 4} /\ cs \in {0, 1}) => result = "InvalidChannelsValue"
              /\ (cs \notin {0, 1}) => result = "InvalidColorSpaceValue"

\* C7 witness: a header with width bytes 1,2,3,4 parsed as SrgbLinA.
C7_Witness ==
    /\ op = "decode_header"
    /\ result = "Ok"
    /\ qoi.colors = "SrgbLinA"
    /\ qoi.width = 16909060
    /\ qoi.height = 256

\* the error the header checks give in their order: length, magic, then the
\* channels and color space fields
HeaderVerdict(bs) ==
    IF Len(bs) < 14 THEN "DataIsTooSmall"
    ELSE IF SubSeq(bs, 1, 4) # QoifBytes THEN "InvalidMagic"
    ELSE IF bs[13] \in {3, 4} /\ bs[14] \in {0, 1} THEN "Ok"
    ELSE IF bs[14] \in {0, 1} THEN "InvalidChannelsValue"
    ELSE "InvalidColorSpaceValue"

\* C8: decode_header fails with DataIsTooSmall on any input shorter than the
\* header, else with InvalidMagic on any magic mismatch, and only then with a
\* channels or color space error; a second call on the same bytes returns what
\* the first returned; decode returns the error decode_header returns.
C8_HeaderCheckOrder ==
    /\ (op = "decode_header" /\ calls > 0) => result = HeaderVerdict(bytes)
    /\ (op = "decode_header" /\ calls = 2) => (prev.result = result /\ prev.qoi = qoi)
    /\ (op = "decode" /\ pc = "done" /\ HeaderVerdict(bytes) # "Ok")
            => result = HeaderVerdict(bytes)

\* C8 witness: decode returned InvalidMagic on a header whose channels and
\* color space fields are invalid too.
C8_Witness ==
    /\ op = "decode"
    /\ pc = "done"
    /\ result = "InvalidMagic"
    /\ bytes[13] = 5
    /\ bytes[14] = 2

\* C9: with width > 0, height > 0 and output.len() < width*height*channels,
\* the decode returns OutputIsTooSmall with no token matched and output
\* untouched; a decode that fails in the header leaves output untouched.
C9_SmallOutputRejected ==
    /\ (Entered /\ qoi.width > 0 /\ qoi.height > 0
          /\ Len(output) < qoi.width * qoi.height * Channels(qoi.colors))
            => /\ pc = "done"
               /\ result = "OutputIsTooSmall"
               /\ tok = NoTok
               /\ wlog = <<>>
               /\ \A i \in 1..Len(output) : output[i] = Fill
    /\ (op = "decode" /\ pc = "done" /\ HeaderVerdict(bytes) # "Ok")
            => (wlog = <<>> /\ \A i \in 1..Len(output) : output[i] = Fill)

\* the product width * height * channels of the call's descriptor fits usize
ProductFits == op # "decode_header" /\ ~Overflows(qoi)

\* C1, C4 and C9 restricted to descriptors whose product fits usize: they hold
\* there, so they fail only through the overflow of decoded_size (C6).
FitsImpliesC1C4C9 ==
    ProductFits => (C1_OkOnlyWhenComplete /\ C4_WritesInBounds /\ C9_SmallOutputRejected)

\* C10: with width = 0 or height = 0, decode_skip_header, and decode on a valid
\* header, return Ok with nothing written, whatever the input and the output
\* buffer are.
C10_ZeroSizedIsOk ==
    (Entered /\ (qoi.width = 0 \/ qoi.height = 0))
        => /\ pc = "done"
           /\ result = "Ok"
           /\ tok = NoTok
           /\ wlog = <<>>
           /\ \A i \in 1..Len(output) : output[i] = Fill

\* C10 witness: decode_skip_header returned Ok for a 0 x DimMax descriptor on
\* an input shorter than the header and an empty output.
C10_Witness ==
    /\ op = "decode_skip_header"
    /\ pc = "done"
    /\ result = "Ok"
    /\ qoi.width = 0
    /\ qoi.height = DimMax
    /\ Len(bytes) < QOI_HEADER_SIZE
    /\ output = <<>>

\* the pixel p as it lies in out at position pos, ch bytes
PixelAt(out, pos, p, ch) ==
    /\ pos + ch <= Len(out)
    /\ out[pos + 1] = p.r
    /\ out[pos + 2] = p.g
    /\ out[pos + 3] = p.b
    /\ ch = 4 => out[pos + 4] = p.a

\* the count of the run token matched last
RunCount == (tok.lead % 64) + 1

\* the pixels of the image that were not yet produced when the last token was matched
Remaining == qoi.width * qoi.height - tok.at

\* the writes made since the last token was matched are copies of the running pixel
CopiesOfPx ==
    \A j \in (tok.at + 1)..Len(wlog) : PixelAt(output, wlog[j], px, Channels(qoi.colors))

\* C11: a run token of count n matched while k pixels of the image remain to
\* be produced writes n copies of the running pixel and the decode returns Ok
\* when n = k, writes n copies and goes on when n < k, and returns
\* OutputIsTooSmall when n > k.
C11_RunAtTail ==
    (tok.arm = "run" /\ pc \in {"loop", "done"})
        => /\ RunCount = Remaining
                => /\ pc = "done" => result = "Ok"
                   /\ Len(wlog) = tok.at + RunCount /\ CopiesOfPx
           /\ RunCount < Remaining
                => /\ pc = "done" => result = "DataIsTooSmall"
                   /\ Len(wlog) = tok.at + RunCount /\ CopiesOfPx
           /\ RunCount > Remaining => pc = "done" /\ result = "OutputIsTooSmall"

\* C11 with a descriptor whose size fits the word
C11_WhenProductFits == ProductFits => C11_RunAtTail

\* a run ended exactly at the last pixel of an output longer than the image,
\* and a longer run was refused there
C11_Reached ==
    /\ tok.arm = "run" /\ pc = "done" /\ ProductFits
    /\ Len(output) > px_len
    /\ \/ RunCount = Remaining /\ RunCount = 2 /\ result = "Ok"
       \/ RunCount > Remaining /\ result = "OutputIsTooSmall"
\* C12 as stated: decode of the encoding of an image without its final byte
\* returns DataIsTooSmall.
C12_CutFails ==
    (alt.kind = "cut" /\ pc = "done") => result = "DataIsTooSmall"

\* C12 amended: it returns DataIsTooSmall, after all pixels but those of the
\* last token, when the image has a pixel and the last token of the encoding
\* is one byte long (cache lookup, small delta, run); with a last token of 2,
\* 4 or 5 bytes, or an image without pixels, it returns Ok and the image.
C12_CutFailsAfterShortToken ==
    (alt.kind = "cut" /\ pc = "done")
        => IF alt.last = 1
           THEN /\ result = "DataIsTooSmall"
                /\ Len(wlog) < alt.image.width * alt.image.height
                /\ Len(rest) = QOI_PADDING
           ELSE /\ result = "Ok"
                /\ output = alt.image.pixels

\* C12 witness: a cut encoding of three pixels that ends in a one-byte token
\* was refused after two pixels
C12_Witness ==
    /\ alt.kind = "cut" /\ pc = "done" /\ alt.last = 1
    /\ result = "DataIsTooSmall"
    /\ alt.image.width * alt.image.height = 3
    /\ Len(wlog) = 2 /\ tok.arm = "luma"
\* C13: the loop is entered with the running pixel (0,0,0,255) and 64 cache
\* slots (0,0,0,0); a cache-lookup token whose slot holds nothing stored by an
\* earlier token makes the running pixel (0,0,0,0), writes it at the pixel
\* cursor (4 zero bytes with alpha, 3 without) and the decode goes on without
\* an error.
C13_FreshCacheLookup ==
    [][/\ (pc' = "loop" /\ tok' = NoTok)
            => /\ px' = Rgba(0, 0, 0, 255)
               /\ \A i \in 0..63 : i \in DOMAIN index' => index'[i] = Rgba(0, 0, 0, 0)
       /\ (tok' # tok /\ tok'.arm = "index" /\ tok'.lead \notin DOMAIN index)
            => /\ px' = Rgba(0, 0, 0, 0)
               /\ wlog' = Append(wlog, px_pos)
               /\ InBounds(px_pos, Channels(qoi.colors))
                    => /\ pc' = "loop" /\ result' = "None"
                       /\ PixelAt(output', px_pos, Rgba(0, 0, 0, 0), Channels(qoi.colors))
                       /\ px_pos' = px_pos + Channels(qoi.colors)]_vars

\* C13 witness: the first token of a stream was a lookup of slot 53, and the
\* first pixel of the output is (0,0,0,0)
C13_Witness ==
    /\ tok.arm = "index" /\ tok.lead = 53 /\ tok.at = 0
    /\ pc = "loop" /\ result = "None"
    /\ px = Rgba(0, 0, 0, 0)
    /\ has_alpha(qoi.colors)
    /\ SubSeq(output, 1, 4) = <<0, 0, 0, 0>>
\* the positions of out written so far by a decode without alpha
Written3 == UNION {{wlog[j] + 1, wlog[j] + 2, wlog[j] + 3} : j \in 1..Len(wlog)}

\* C14 as stated: in a decode without alpha the running pixel's alpha is 255 at
\* every step, and output is written three bytes per pixel only.
C14_AlphaFixed ==
    (pc \in {"loop", "run"} /\ ~has_alpha(qoi.colors))
        => /\ px.a = 255
           /\ \A i \in 1..Len(output) : i \notin Written3 => output[i] = Fill

\* C14 amended: in a decode without alpha the running pixel's alpha is 255 when
\* the loop is entered and is kept by literal-RGB, small-delta, luma-delta and
\* run tokens; a literal-RGBA token sets it to its fifth byte and a cache
\* lookup to the alpha of the slot (0 for a slot never stored into); every
\* write changes at most the three bytes r, g, b at the pixel cursor.
C14_AlphaKeptNotWritten ==
    [][(pc \in {"loop", "run"} /\ ~has_alpha(qoi.colors))
        => /\ tok = NoTok => px.a = 255
           /\ (tok' # tok /\ tok'.arm \in {"rgb", "diff", "luma", "run"}) => px'.a = px.a
           /\ (tok' # tok /\ tok'.arm = "rgba" /\ rest[5] # Unk) => px'.a = rest[5]
           /\ (tok' # tok /\ tok'.arm = "index")
                => px'.a = IF tok'.lead \in DOMAIN index THEN index[tok'.lead].a ELSE 0
           /\ tok' = tok => px' = px
           /\ Len(output') = Len(output)
           /\ \A i \in 1..Len(output) :
                  output'[i] # output[i] => i \in {px_pos + 1, px_pos + 2, px_pos + 3}
           /\ px_pos' # px_pos
                => /\ px_pos' = px_pos + 3
                   /\ SubSeq(output', px_pos + 1, px_pos + 3) = <<px'.r, px'.g, px'.b>>]_vars

\* C14 witness: a literal-RGBA token in a decode without alpha left alpha 4 in
\* the running pixel and three bytes in output
C14_Witness ==
    /\ ~has_alpha(qoi.colors) /\ pc = "loop"
    /\ tok.arm = "rgba" /\ tok.at = 0
    /\ px = Rgba(1, 2, 3, 4)
    /\ Len(output) >= 4
    /\ SubSeq(output, 1, 4) = <<1, 2, 3, Fill>>
\* x modulo 256 for x >= -512
Mod256(x) == (x + 512) % 256

\* the small-delta token b applied to p with signed differences
DiffReference(p, b) ==
    Rgba(Mod256(p.r + ((b \div 16) % 4) - 2),
         Mod256(p.g + ((b \div 4) % 4) - 2),
         Mod256(p.b + (b % 4) - 2),
         p.a)

\* the luma-delta token b1, b2 applied to p with signed differences
LumaReference(p, b1, b2) ==
    LET vg == (b1 % 64) - 32
        vr == ((b2 \div 16) % 16) - 8 + vg
        vb == (b2 % 16) - 8 + vg
    IN Rgba(Mod256(p.r + vr), Mod256(p.g + vg), Mod256(p.b + vb), p.a)

\* C15: a small-delta token and a luma-delta token leave in the running pixel
\* the channels of the signed reference taken modulo 256 and the alpha it had,
\* and the decode goes on without an error.
C15_DeltaIsModular ==
    [][(tok' # tok /\ tok'.arm \in {"diff", "luma"})
        => /\ tok'.arm = "diff" => px' = DiffReference(px, rest[1])
           /\ tok'.arm = "luma" => px' = LumaReference(px, rest[1], rest[2])
           /\ pc' = "loop" /\ result' = "None"]_vars

\* C15 witness: the small delta (-2, -1, 0) was applied to (0, 255, 128, 255)
C15_Witness ==
    /\ tok.arm = "diff" /\ tok.lead = 70
    /\ px = Rgba(254, 254, 128, 255)
    /\ pc = "loop"
\* the bytes of the input after the last token matched, as they were given
Unread == SubSeq(bytes, Len(bytes) - Len(rest) + 1, Len(bytes))

\* C16: when the decode returns Ok the bytes after the last token matched were
\* not read (none of them was given a value), and the encoding of an image
\* with other bytes in the place of its padding decodes to the same result
\* and the same output as the encoding itself.
C16_TailNotRead ==
    /\ (Entered /\ pc = "done" /\ result = "Ok" /\ ~ub /\ Len(bytes) >= QOI_HEADER_SIZE)
            => rest = Unread
    /\ (alt.kind = "tail" /\ pc = "done")
            => /\ result = "Ok"
               /\ qoi = [width |-> alt.image.width, height |-> alt.image.height,
                         colors |-> alt.image.colors]
               /\ output = alt.image.pixels
               /\ Len(wlog) > 0 => rest \in OtherTails

\* C16 witness: an image of two pixels or more was decoded from an encoding
\* that ends in eight bytes 255
C16_Witness ==
    /\ alt.kind = "tail" /\ pc = "done" /\ result = "Ok"
    /\ Len(wlog) >= 2
    /\ rest = Const(QOI_PADDING, 255)
    /\ output = alt.image.pixels
\* C17: a run token keeps the running pixel and the cache, takes one byte of
\* the input and starts a run of (low 6 bits) + 1 copies; every copy is the
\* running pixel written at the pixel cursor, which advances by channels; a run
\* that ends has written that many copies; a run that is the first token
\* writes (0,0,0,255) and leaves the cache empty.
C17_RunFrame ==
    [][/\ (tok' # tok /\ tok'.arm = "run")
            => /\ px' = px /\ index' = index
               /\ rest' = SubSeq(rest, 2, Len(rest))
               /\ run' = (tok'.lead % 64) + 1
               /\ output' = output /\ px_pos' = px_pos
       /\ pc = "run"
            => /\ px' = px /\ index' = index /\ rest' = rest
               /\ px_pos' # px_pos
                    => /\ px_pos' = px_pos + Channels(qoi.colors)
                       /\ PixelAt(output', px_pos, px, Channels(qoi.colors))
                       /\ run' = run - 1
       /\ (pc = "run" /\ run = 0)
            => /\ Len(wlog) = tok.at + RunCount
               /\ px_pos = wlog[tok.at + 1] + RunCount * Channels(qoi.colors)
               /\ CopiesOfPx
       /\ (pc = "run" /\ tok.at = 0)
            => /\ px = Rgba(0, 0, 0, 255)
               /\ DOMAIN index = {}]_vars

\* C17 witness: a run of two as the first token has ended, two pixels
\* (0,0,0,255) are in output and the cache is empty
C17_Witness ==
    /\ pc = "run" /\ run = 0
    /\ tok.arm = "run" /\ tok.at = 0 /\ RunCount = 2
    /\ Len(wlog) = 2
    /\ has_alpha(qoi.colors)
    /\ Len(output) >= 8
    /\ SubSeq(output, 1, 8) = <<0, 0, 0, 255, 0, 0, 0, 255>>
    /\ DOMAIN index = {}
\* the pixel held by slot i of the cache idx
Slot(idx, i) == IF i \in DOMAIN idx THEN idx[i] ELSE Rgba(0, 0, 0, 0)

\* C18: a token that is not a run assigns the resulting running pixel, with
\* its four channels, to the cache slot of its hash and to no other slot,
\* writes it at the pixel cursor and advances the cursor by channels; every
\* cache slot i holds the zero pixel or a pixel whose hash is i.
C18_CacheStore ==
    [][/\ (tok' # tok /\ tok'.arm # "run")
            => /\ \A i \in 0..63 :
                      Slot(index', i) = IF i = qui_color_hash(px') THEN px' ELSE Slot(index, i)
               /\ wlog' = Append(wlog, px_pos)
               /\ InBounds(px_pos, Channels(qoi.colors))
                    => /\ PixelAt(output', px_pos, px', Channels(qoi.colors))
                       /\ px_pos' = px_pos + Channels(qoi.colors)
       /\ tok' = tok => index' = index
       /\ \A i \in 0..63 :
              Slot(index, i) = Rgba(0, 0, 0, 0) \/ qui_color_hash(Slot(index, i)) = i]_vars

\* C18 witness: in a decode without alpha the pixel (1,2,3,4) of a
\* literal-RGBA token lies in slot 14, the hash of its four channels
C18_Witness ==
    /\ ~has_alpha(qoi.colors) /\ pc = "loop"
    /\ tok.arm = "rgba"
    /\ px = Rgba(1, 2, 3, 4)
    /\ Slot(index, 14) = px
    /\ Len(wlog) >= 1
\* the kind of token the format gives to a leading byte
KindReference(b) ==
    IF b = 254 THEN "rgb"
    ELSE IF b = 255 THEN "rgba"
    ELSE IF b \div 64 = 0 THEN "index"
    ELSE IF b \div 64 = 1 THEN "diff"
    ELSE IF b \div 64 = 2 THEN "luma"
    ELSE "run"

\* C19: whenever a token is read, the leading byte alone selects the arm:
\* 254 literal RGB (4 bytes), 255 literal RGBA (5), 0..63 cache lookup (1),
\* 64..127 small delta (1), 128..191 luma delta (2), 192..253 run (1) with a
\* count in 1..62; one of the six arms is taken and never the fallback arm.
C19_DispatchTotal ==
    [][/\ (pc = "loop" /\ px_pos < px_len /\ Len(rest) > QOI_PADDING)
            => /\ rest[1] \in Byte
               /\ Arm(rest[1], Len(rest)) = KindReference(rest[1])
               /\ ENABLED (OpRgb \/ OpRgba \/ OpIndex \/ OpDiff \/ OpLuma \/ OpRun)
               /\ tok' # tok
       /\ tok' # tok
            => /\ tok'.lead = rest[1]
               /\ tok'.arm = KindReference(rest[1])
               /\ tok'.used = TokenLen(rest[1])
               /\ rest' = SubSeq(rest, TokenLen(rest[1]) + 1, Len(rest))
               /\ tok'.arm = "run" => (run' = rest[1] - 191 /\ run' \in 1..62)]_vars

\* C19 witness: the leading byte 254, inside the range 192..255 of the run
\* pattern, was taken as a literal RGB token of four bytes
C19_Witness ==
    /\ tok.lead = 254 /\ tok.arm = "rgb" /\ tok.used = 4
    /\ pc = "loop"
    /\ px = Rgba(1, 1, 1, 255)
\* a number that every step of a call makes smaller
Measure ==
    IF pc = "done" THEN (IF op = "decode_header" THEN 2 - calls ELSE 0)
    ELSE IF pc = "call" THEN (Len(bytes) + 2) * 130
    ELSE IF pc = "loop" THEN Len(rest) * 130 + 1
    ELSE Len(rest) * 130 + 2 + run

\* the call goes on until it ends, every step brings the end nearer, an
\* iteration of the outer loop that does not end the call takes at least one
\* byte of the input and advances the pixel cursor by channels or more, and a
\* run loop makes at most 62 steps
C20_Progress ==
    /\ [](/\ pc # "done" => ENABLED Next
          /\ Measure >= 0
          /\ run <= 62)
    /\ [][/\ Measure' < Measure
          /\ (pc = "loop" /\ pc' = "loop")
                => /\ Len(rest') < Len(rest)
                   /\ px_pos' >= px_pos + Channels(qoi.colors)
          /\ (pc = "loop" /\ pc' = "run") => Len(rest') < Len(rest)
          /\ (pc = "run" /\ pc' = "loop")
                => px_pos >= wlog[tok.at + 1] + Channels(qoi.colors)]_vars

\* C20: decode and decode_skip_header terminate, with the progress above in
\* every iteration, and what they return is Ok with the pixel cursor at
\* decoded_size or one of the errors.
C20_TerminatesWithResult ==
    /\ C20_Progress
    /\ []((Entered /\ pc = "done")
            => /\ result \in {"Ok"} \cup Errors
               /\ result = "Ok" => px_pos = px_len)
====
